---- MODULE Spec2Model ----
(***************************************************************************)
(* Accurate timing of Strava segments: the matching-and-interpolation      *)
(* pipeline of accurate_timing_of_strava_segments.py, from the candidate   *)
(* locator through the window extraction to the crossing interpolator.     *)
(*                                                                         *)
(* Coordinates are integers in units of 0.0005 degrees (the tolerance of   *)
(* is_trackpoint_close_to_point), timestamps are integer seconds.  The     *)
(* geometry library computes exactly (sympy turns the coordinates into     *)
(* rationals), so the model does too: a distance is kept as its square, a  *)
(* rational <<numerator, denominator>> with a positive denominator, and    *)
(* two distances are compared by comparing their squares.  An interpolated *)
(* time is a rational number of seconds.  An Optional value is a sequence  *)
(* of length 0 (None) or 1.                                                *)
(***************************************************************************)
EXTENDS Integers, Sequences, FiniteSets

VARIABLES
    segment,               \* the Segment handed to segment_time
    trackpoints,           \* activity.trackpoints, a sequence (index 0 of the code is element 1)
    pc,                    \* "locate", "windows", "calc", "done" or "raised"
    error,                 \* the exception that ended the run, "" while there is none
    point_idx,             \* loop variable of the locator (next index to visit)
    start_idx_dist,        \* locator: <<index, squared distance>> for the segment start
    end_idx_dist,          \* locator: <<index, squared distance>> for the segment end
    start_idx,             \* segment_time: first index returned by the locator
    end_ids,               \* segment_time: second index returned by the locator
    relevant_trackpoints,  \* segment_time: the list passed to calc_segment_times
    relevant_idxs,         \* history: the track index each entry of the list comes from
    calc_point_idx,        \* loop variable of calc_segment_times (next position to visit)
    start,                 \* calc_segment_times: pending start crossing, Optional
    end,                   \* calc_segment_times: pending end crossing, Optional
    effort_times,          \* calc_segment_times: the durations emitted so far
    pairs,                 \* history: for each duration, <<step of its start, step of its end>>
    last,                  \* history: what the most recent loop iteration of calc_segment_times did
    segment_times          \* segment_time: the result of calc_segment_times

vars == <<segment, trackpoints, pc, error, point_idx, start_idx_dist, end_idx_dist,
          start_idx, end_ids, relevant_trackpoints, relevant_idxs, calc_point_idx,
          start, end, effort_times, pairs, last, segment_times>>

(***************************************************************************)
(* Bounds of the model.                                                    *)
(***************************************************************************)
MaxLen == 3   \* longest track on the grid
MaxLineLen == 5   \* longest track on a line
MaxX == 2     \* longitudes 0..MaxX
MaxY == 2     \* latitudes 0..MaxY
SampleSeconds == 2   \* seconds between two consecutive track points

(***************************************************************************)
(* Program constants.                                                      *)
(***************************************************************************)
tolerance == 1               \* 0.0005 degrees, in coordinate units
invalid_idx == -1
invalid_distance == 1000000  \* 99999999.9 squared exceeds every squared distance; kept in range

None == <<>>
Some(v) == <<v>>

Abs(n) == IF n < 0 THEN -n ELSE n
Max(a, b) == IF a < b THEN b ELSE a

\* Rationals <<n, d>> with d > 0.
RatLess(a, b) == a[1] * b[2] < b[1] * a[2]
RatLeq(a, b) == a[1] * b[2] <= b[1] * a[2]
RatEq(a, b) == a[1] * b[2] = b[1] * a[2]
RatMin(a, b) == IF RatLess(a, b) THEN a ELSE b
RatSub(a, b) == <<a[1] * b[2] - b[1] * a[2], a[2] * b[2]>>

(***************************************************************************)
(* Geometric primitives (sympy.geometry as the program uses it).           *)
(***************************************************************************)
Point(x, y) == [x |-> x, y |-> y]

Dot(ax, ay, bx, by) == ax * bx + ay * by
Cross(ax, ay, bx, by) == ax * by - ay * bx

\* Point.distance, squared.
PointDistance2(a, b) == (a.x - b.x) * (a.x - b.x) + (a.y - b.y) * (a.y - b.y)

\* Segment(p1, p2): sympy returns the Point itself when the two points coincide.
Segment(p1, p2) == IF p1 = p2 THEN p1 ELSE [p1 |-> p1, p2 |-> p2]

\* The object has the attributes p1 and p2 (it is a Segment, not a Point).
HasEndpoints(step) == "p1" \in DOMAIN step

\* step.length, squared.
Length2(step) == PointDistance2(step.p1, step.p2)

\* Line(p1, p2).distance(point), squared: the perpendicular distance.
LineDistance2(step, point) ==
    LET c == Cross(step.p2.x - step.p1.x, step.p2.y - step.p1.y,
                   point.x - step.p1.x, point.y - step.p1.y)
    IN  <<c * c, Length2(step)>>

\* Segment.distance(point), squared: the perpendicular distance when the
\* projection falls on the segment, else the distance to the nearer endpoint.
SegmentDistance2(step, point) ==
    LET dx == step.p2.x - step.p1.x
        dy == step.p2.y - step.p1.y
        dot_prod_sign_1 == Dot(dx, dy, point.x - step.p1.x, point.y - step.p1.y) >= 0
        dot_prod_sign_2 == Dot(dx, dy, point.x - step.p2.x, point.y - step.p2.y) <= 0
    IN  IF dot_prod_sign_1 /\ dot_prod_sign_2 THEN LineDistance2(step, point)
        ELSE IF dot_prod_sign_1 THEN <<PointDistance2(step.p2, point), 1>>
        ELSE <<PointDistance2(step.p1, point), 1>>

\* Line(p1, p2).projection(point): rational coordinates over Length2(step).
Projection(step, point) ==
    LET dx == step.p2.x - step.p1.x
        dy == step.p2.y - step.p1.y
        l2 == Length2(step)
        dot == Dot(dx, dy, point.x - step.p1.x, point.y - step.p1.y)
    IN  [x |-> <<step.p1.x * l2 + dx * dot, l2>>,
         y |-> <<step.p1.y * l2 + dy * dot, l2>>]

track_point_to_point(trackpoint) == Point(trackpoint.longitude, trackpoint.latitude)

(***************************************************************************)
(* check_passed_point and project_and_interpolate.                         *)
(***************************************************************************)
check_passed_point_le(step, point) ==
    RatLeq(SegmentDistance2(step, point),
           RatMin(<<PointDistance2(step.p1, point), 1>>,
                  <<PointDistance2(step.p2, point), 1>>))

check_passed_point(step, point) ==
    RatLess(SegmentDistance2(step, point),
            RatMin(<<PointDistance2(step.p1, point), 1>>,
                   <<PointDistance2(step.p2, point), 1>>))

\* start_projection.distance(point) / step.length, as the rational n / Length2(step):
\* the distance is Sqrt(a*a + b*b) / l2 and the length Sqrt(l2), so that
\* n * n * l2 = a * a + b * b.
start_step_fraction(step, point) ==
    LET l2 == Length2(step)
        start_projection == Projection(step, point)
        a == start_projection.x[1] - point.x * l2
        b == start_projection.y[1] - point.y * l2
        n == CHOOSE k \in 0..(Abs(a) + Abs(b)) : k * k * l2 = a * a + b * b
    IN  <<n, l2>>

project_and_interpolate(step, step_t1, step_t2, point) ==
    LET start_projection == Projection(step, point)
        fraction == start_step_fraction(step, point)
        step_duration_s == step_t2 - step_t1
        exact_time == <<step_t1 * fraction[2] + fraction[1] * step_duration_s, fraction[2]>>
    IN  [longitude |-> start_projection.x,
         latitude |-> start_projection.y,
         time |-> exact_time]

(***************************************************************************)
(* The candidate locator.                                                  *)
(***************************************************************************)
is_trackpoint_close_to_point(trackpoint, point) ==
    /\ point.y - tolerance <= trackpoint.latitude
    /\ trackpoint.latitude <= point.y + tolerance
    /\ point.x - tolerance <= trackpoint.longitude
    /\ trackpoint.longitude <= point.x + tolerance

\* Truth value of "not t" for a tuple t: true only of the empty tuple.
not_tuple(t) == Len(t) = 0

\* Lines 125-128: the start candidate after visiting trackpoint idx.
start_candidate(idx, trackpoint, cur) ==
    IF is_trackpoint_close_to_point(trackpoint, segment.p1)
    THEN LET start_dist == PointDistance2(track_point_to_point(trackpoint), segment.p1)
         IN  IF cur[1] = invalid_idx \/ start_dist < cur[2]
             THEN <<idx, start_dist>> ELSE cur
    ELSE cur

\* Lines 131-135: the end candidate after visiting trackpoint idx, given the
\* start candidate as updated by the same iteration.
end_candidate(idx, trackpoint, cur_start, cur) ==
    IF cur_start[1] # invalid_idx /\ is_trackpoint_close_to_point(trackpoint, segment.p2)
    THEN LET end_dist == PointDistance2(track_point_to_point(trackpoint), segment.p2)
         IN  IF not_tuple(cur) \/ end_dist < cur[2]
             THEN <<idx, end_dist>> ELSE cur
    ELSE cur

\* One iteration of the loop of lines 122-135.
LocateStep ==
    /\ pc = "locate"
    /\ point_idx < Len(trackpoints)
    /\ LET trackpoint == trackpoints[point_idx + 1]
           new_start == start_candidate(point_idx, trackpoint, start_idx_dist)
       IN  /\ start_idx_dist' = new_start
           /\ end_idx_dist' = end_candidate(point_idx, trackpoint, new_start, end_idx_dist)
    /\ point_idx' = point_idx + 1
    /\ UNCHANGED <<segment, trackpoints, pc, error, start_idx, end_ids,
                   relevant_trackpoints, relevant_idxs, calc_point_idx, start, end,
                   effort_times, pairs, last, segment_times>>

\* Lines 137-141, and the assignment of the result in segment_time (169-170).
LocateReturn ==
    /\ pc = "locate"
    /\ point_idx = Len(trackpoints)
    /\ IF not_tuple(start_idx_dist)
       THEN /\ pc' = "raised"
            /\ error' = "RuntimeError: start"
            /\ UNCHANGED <<start_idx, end_ids>>
       ELSE IF not_tuple(end_idx_dist)
       THEN /\ pc' = "raised"
            /\ error' = "RuntimeError: end"
            /\ UNCHANGED <<start_idx, end_ids>>
       ELSE /\ pc' = "windows"
            /\ start_idx' = start_idx_dist[1]
            /\ end_ids' = end_idx_dist[1]
            /\ UNCHANGED error
    /\ UNCHANGED <<segment, trackpoints, point_idx, start_idx_dist, end_idx_dist,
                   relevant_trackpoints, relevant_idxs, calc_point_idx, start, end,
                   effort_times, pairs, last, segment_times>>

(***************************************************************************)
(* The window extractor.                                                   *)
(***************************************************************************)
RECURSIVE sorted(_)
sorted(S) ==
    IF S = {} THEN <<>>
    ELSE LET m == CHOOSE v \in S : \A w \in S : v <= w
         IN  <<m>> \o sorted(S \ {m})

\* Lines 156-157.
valid_idxs(points, center_idx) ==
    LET all_idxs == <<center_idx - 2, center_idx - 1, center_idx,
                      center_idx + 1, center_idx + 2>>
    IN  sorted({all_idxs[k] : k \in {j \in 1..5 : 0 <= all_idxs[j] /\ all_idxs[j] < Len(points)}})

with_surrounding_trackpoints(points, center_idx) ==
    LET idxs == valid_idxs(points, center_idx)
    IN  [k \in 1..Len(idxs) |-> points[idxs[k] + 1]]

\* Lines 172-174 of segment_time.
BuildWindows ==
    /\ pc = "windows"
    /\ relevant_trackpoints' = with_surrounding_trackpoints(trackpoints, start_idx)
                               \o with_surrounding_trackpoints(trackpoints, end_ids)
    /\ relevant_idxs' = valid_idxs(trackpoints, start_idx) \o valid_idxs(trackpoints, end_ids)
    /\ pc' = "calc"
    /\ UNCHANGED <<segment, trackpoints, error, point_idx, start_idx_dist, end_idx_dist,
                   start_idx, end_ids, calc_point_idx, start, end, effort_times, pairs,
                   last, segment_times>>

(***************************************************************************)
(* The crossing interpolator, calc_segment_times.                          *)
(***************************************************************************)
\* A crossing as the loop keeps it, with the position of the step it was
\* produced on (history only; the code keeps the projected point and the time).
Stamp(crossing, pos) ==
    [longitude |-> crossing.longitude, latitude |-> crossing.latitude,
     time |-> crossing.time, step |-> pos]

\* activity[:-2]
all_but_last_two(activity) == SubSeq(activity, 1, Max(Len(activity) - 2, 0))

\* Lines 92-93: the pending start after the start test of one step.
start_after_step(step, ap1, ap2, pos, cur_start) ==
    IF check_passed_point(step, segment.p1)
    THEN Some(Stamp(project_and_interpolate(step, ap1.time, ap2.time, segment.p1), pos))
    ELSE cur_start

end_after_step_ungated(step, ap1, ap2, pos, new_start, cur_end) ==
    IF check_passed_point(step, segment.p2)
    THEN Some(Stamp(project_and_interpolate(step, ap1.time, ap2.time, segment.p2), pos))
    ELSE cur_end

\* Lines 94-96: the pending end after the end test of one step.
end_after_step(step, ap1, ap2, pos, new_start, cur_end) ==
    IF new_start # None /\ check_passed_point(step, segment.p2)
    THEN Some(Stamp(project_and_interpolate(step, ap1.time, ap2.time, segment.p2), pos))
    ELSE cur_end

\* One iteration of the loop of lines 88-99.  Building the step of two
\* coinciding points yields a Point, and check_passed_point then fails on
\* step.p1 with an AttributeError.
CalcStep ==
    /\ pc = "calc"
    /\ calc_point_idx < Len(all_but_last_two(relevant_trackpoints))
    /\ LET ap1 == relevant_trackpoints[calc_point_idx + 1]
           ap2 == relevant_trackpoints[calc_point_idx + 2]
           step == Segment(track_point_to_point(ap1), track_point_to_point(ap2))
       IN  IF ~HasEndpoints(step)
           THEN /\ pc' = "raised"
                /\ error' = "AttributeError"
                /\ UNCHANGED <<calc_point_idx, start, end, effort_times, pairs, last>>
           ELSE LET new_start == start_after_step(step, ap1, ap2, calc_point_idx, start)
                    new_end == end_after_step(step, ap1, ap2, calc_point_idx, new_start, end)
                    emit == new_start # None /\ new_end # None
                IN  /\ IF emit
                       THEN /\ effort_times' = Append(effort_times,
                                   RatSub(new_end[1].time, new_start[1].time))
                            /\ pairs' = Append(pairs, <<new_start[1].step, new_end[1].step>>)
                            /\ start' = None
                            /\ end' = None
                       ELSE /\ start' = new_start
                            /\ end' = new_end
                            /\ UNCHANGED <<effort_times, pairs>>
                    /\ last' = Some([step |-> calc_point_idx,
                                     passed_start |-> check_passed_point(step, segment.p1),
                                     made_start |-> IF new_start # start THEN new_start ELSE None,
                                     start_pending |-> new_start # None,
                                     passed_end |-> IF new_start # None
                                                    THEN Some(check_passed_point(step, segment.p2))
                                                    ELSE None,
                                     made_end |-> IF new_end # end THEN new_end ELSE None,
                                     emitted |-> emit])
                    /\ calc_point_idx' = calc_point_idx + 1
                    /\ UNCHANGED <<pc, error>>
    /\ UNCHANGED <<segment, trackpoints, point_idx, start_idx_dist, end_idx_dist,
                   start_idx, end_ids, relevant_trackpoints, relevant_idxs, segment_times>>

\* Line 100, and the assignment of the result in segment_time (176).
CalcReturn ==
    /\ pc = "calc"
    /\ calc_point_idx = Len(all_but_last_two(relevant_trackpoints))
    /\ segment_times' = effort_times
    /\ pc' = "done"
    /\ UNCHANGED <<segment, trackpoints, error, point_idx, start_idx_dist, end_idx_dist,
                   start_idx, end_ids, relevant_trackpoints, relevant_idxs,
                   calc_point_idx, start, end, effort_times, pairs, last>>

(***************************************************************************)
(* The inputs and the specification.  A track is a sequence of at most     *)
(* MaxLen points of the grid, sampled every SampleSeconds; the segment has    *)
(* two distinct endpoints on the grid.  Locals that are not yet assigned   *)
(* hold 0 or the empty sequence and are not read before their assignment.  *)
(***************************************************************************)
Coords == {Point(x, y) : x \in 0..MaxX, y \in 0..MaxY}

\* The track through the given positions, time-ordered.
Track(pts) ==
    [i \in 1..Len(pts) |-> [longitude |-> pts[i].x,
                            latitude |-> pts[i].y,
                            time |-> (i - 1) * SampleSeconds]]

\* The state on entry to segment_time, for a given segment and track.
Entry(seg, track) ==
    /\ segment = seg
    /\ trackpoints = track
    /\ pc = "locate"
    /\ error = ""
    /\ point_idx = 0
    /\ start_idx_dist = <<invalid_idx, invalid_distance>>
    /\ end_idx_dist = <<invalid_idx, invalid_distance>>
    /\ start_idx = 0
    /\ end_ids = 0
    /\ relevant_trackpoints = <<>>
    /\ relevant_idxs = <<>>
    /\ calc_point_idx = 0
    /\ start = None
    /\ end = None
    /\ effort_times = <<>>
    /\ pairs = <<>>
    /\ last = None
    /\ segment_times = <<>>

Init ==
    \E a \in Coords, b \in Coords :
       /\ a # b
       /\ \E n \in 0..MaxLen :
             \E pts \in [1..n -> Coords] :
                Entry([p1 |-> a, p2 |-> b], Track(pts))

\* Longer tracks, along the line of latitude 0: the windows of the two
\* indices can then touch, overlap or lie apart.
LineCoords == {Point(x, 0) : x \in 0..MaxX}

InitLine ==
    \E a \in LineCoords, b \in LineCoords :
       /\ a # b
       /\ \E n \in 0..MaxLineLen :
             \E pts \in [1..n -> LineCoords] :
                Entry([p1 |-> a, p2 |-> b], Track(pts))

Next ==
    \/ LocateStep
    \/ LocateReturn
    \/ BuildWindows
    \/ CalcStep
    \/ CalcReturn

Spec == Init /\ [][Next]_vars

SpecLine == InitLine /\ [][Next]_vars

(***************************************************************************)
(* Vocabulary of the properties.                                           *)
(***************************************************************************)
\* The locator has returned a pair of indices to segment_time.
LocatorReturned == pc \in {"windows", "calc", "done"} \/ error = "AttributeError"

\* The run has ended, with a result or with an exception.
Ended == pc \in {"done", "raised"}

\* Indices (of the code) of the track points that pass the proximity test.
StartCandidates ==
    {i \in 0..(Len(trackpoints) - 1) :
        is_trackpoint_close_to_point(trackpoints[i + 1], segment.p1)}
EndCandidatesFrom(first) ==
    {i \in first..(Len(trackpoints) - 1) :
        is_trackpoint_close_to_point(trackpoints[i + 1], segment.p2)}
FirstStartCandidate == CHOOSE i \in StartCandidates : \A j \in StartCandidates : i <= j

\* The step of the list at position pos (0-based), a Segment or a Point.
StepAt(pos) ==
    Segment(track_point_to_point(relevant_trackpoints[pos + 1]),
            track_point_to_point(relevant_trackpoints[pos + 2]))
T1At(pos) == relevant_trackpoints[pos + 1].time
T2At(pos) == relevant_trackpoints[pos + 2].time

\* d . (point - p1) for the direction d of the step: the projection of the
\* point falls at the fraction AlongStep / Length2 of the way from p1 to p2.
AlongStep(step, point) ==
    Dot(step.p2.x - step.p1.x, step.p2.y - step.p1.y,
        point.x - step.p1.x, point.y - step.p1.y)

\* The perpendicular distance to the infinite line is less than the smaller
\* of the distances to the two endpoints.
LineCloserThanEndpoints(step, point) ==
    RatLess(LineDistance2(step, point),
            RatMin(<<PointDistance2(step.p1, point), 1>>,
                   <<PointDistance2(step.p2, point), 1>>))

\* The projection of the point falls strictly between the endpoints.
ProjectsStrictlyInside(step, point) ==
    /\ 0 < AlongStep(step, point)
    /\ AlongStep(step, point) < Length2(step)

\* ap1.time + f * (ap2.time - ap1.time), f the distance from ap1 to the
\* projection of the point divided by the length of the step.
InterpolatedAlongStep(step, t1, t2, point) ==
    LET l2 == Length2(step)
        proj == Projection(step, point)
        a == proj.x[1] - step.p1.x * l2
        b == proj.y[1] - step.p1.y * l2
        n == CHOOSE k \in 0..(Abs(a) + Abs(b)) : k * k * l2 = a * a + b * b
    IN  <<t1 * l2 + n * (t2 - t1), l2>>

RunOf(S) == \A j, k \in 1..Len(S) : j < k => S[j] < S[k]

(***************************************************************************)
(* C1.  Scenario A.                                                        *)
(***************************************************************************)
\* C1: for a track of exactly two points, the first at the segment's start
\* and the second at its end, T > 0 seconds apart, the pipeline ends with
\* exactly one effort, equal to T.
C1_TwoPointTrackYieldsT ==
    (/\ Ended
     /\ Len(trackpoints) = 2
     /\ track_point_to_point(trackpoints[1]) = segment.p1
     /\ track_point_to_point(trackpoints[2]) = segment.p2
     /\ trackpoints[2].time > trackpoints[1].time)
    => /\ pc = "done"
       /\ Len(segment_times) = 1
       /\ RatEq(segment_times[1], <<trackpoints[2].time - trackpoints[1].time, 1>>)

(***************************************************************************)
(* C2, C3.  The candidate locator.                                         *)
(***************************************************************************)
\* C2: once the locator has finished, it has signalled the error for "start"
\* if no track point passes the proximity test for the segment start, the
\* distinct error for "end" if a start candidate exists but no point at or
\* after it passes the test for the segment end, and otherwise it has
\* returned two indices neither of which is the placeholder -1.
C2_ErrorUnlessBothFound ==
    pc # "locate" =>
        IF StartCandidates = {}
        THEN error = "RuntimeError: start"
        ELSE IF EndCandidatesFrom(FirstStartCandidate) = {}
        THEN error = "RuntimeError: end"
        ELSE /\ LocatorReturned
             /\ start_idx # invalid_idx
             /\ end_ids # invalid_idx

\* C3: whenever the locator returns (start_index, end_index), end_index is
\* not less than start_index.  Stated for the returns in which both indices
\* were found, so that the placeholder -1 plays no part in it.
C3_EndNotBeforeStart ==
    (LocatorReturned /\ start_idx # invalid_idx /\ end_ids # invalid_idx)
    => end_ids >= start_idx

(***************************************************************************)
(* C4, C5.  project_and_interpolate.                                       *)
(***************************************************************************)
\* C4: every crossing that project_and_interpolate produced on a step
\* (ap1, ap2) for a target carries the time ap1.time + f * (ap2.time -
\* ap1.time), f being the distance from ap1 to the projection of the target
\* divided by the length of the step.
C4_TimeInterpolatedAlongStep ==
    last # None =>
        LET l == last[1] IN
        /\ l.made_start # None =>
              RatEq(l.made_start[1].time,
                    InterpolatedAlongStep(StepAt(l.step), T1At(l.step), T2At(l.step),
                                          segment.p1))
        /\ l.made_end # None =>
              RatEq(l.made_end[1].time,
                    InterpolatedAlongStep(StepAt(l.step), T1At(l.step), T2At(l.step),
                                          segment.p2))

\* The fraction of project_and_interpolate lies in [0, 1] and the time of
\* the crossing lies between t1 and t2.
WithinStep(step, t1, t2, point, crossing) ==
    /\ RatLeq(<<0, 1>>, start_step_fraction(step, point))
    /\ RatLeq(start_step_fraction(step, point), <<1, 1>>)
    /\ RatLeq(<<t1, 1>>, crossing.time)
    /\ RatLeq(crossing.time, <<t2, 1>>)

\* C5: on every step with ap1.time <= ap2.time that calc_segment_times
\* examines, a crossing produced for a target that check_passed_point
\* accepted has its fraction in [0, 1] and its time between ap1.time and
\* ap2.time inclusive.
C5_CrossingWithinStep ==
    (last # None /\ T1At(last[1].step) <= T2At(last[1].step)) =>
        LET l == last[1] IN
        /\ l.made_start # None =>
              WithinStep(StepAt(l.step), T1At(l.step), T2At(l.step), segment.p1,
                         l.made_start[1])
        /\ l.made_end # None =>
              WithinStep(StepAt(l.step), T1At(l.step), T2At(l.step), segment.p2,
                         l.made_end[1])

(***************************************************************************)
(* C6.  Failure-freedom of calc_segment_times.                             *)
(***************************************************************************)
\* C6: calc_segment_times never raises, whatever list segment_time builds
\* from the indices of the locator.
C6_CalcNeverRaises == error # "AttributeError"

\* calc_segment_times has raised on a step made of one track point standing
\* twice in a row in the list, on a track whose consecutive points all
\* differ in position.
C6_RaisedOnRepeatedTrackPoint ==
    /\ error = "AttributeError"
    /\ relevant_idxs[calc_point_idx + 1] = relevant_idxs[calc_point_idx + 2]
    /\ \A i \in 1..(Len(trackpoints) - 1) :
          track_point_to_point(trackpoints[i]) # track_point_to_point(trackpoints[i + 1])

(***************************************************************************)
(* C7.  Pairing of the crossings in calc_segment_times.                    *)
(***************************************************************************)
\* C7: an end crossing is produced only on a step at which a start crossing
\* is pending; every effort pairs an end with a start produced on the same
\* or an earlier step; each emission clears both pending crossings, so that
\* no end crossing is pending at the start of a loop iteration, a pending
\* start was produced on a step already examined, and the start of each
\* effort was produced after the end of the effort before it (no crossing
\* contributes to two efforts).
C7_EndPairsWithEarlierStart ==
    /\ end = None
    /\ start # None => start[1].step < calc_point_idx
    /\ Len(pairs) = Len(effort_times)
    /\ \A k \in 1..Len(pairs) : pairs[k][1] <= pairs[k][2]
    /\ \A j, k \in 1..Len(pairs) : j < k => pairs[j][2] < pairs[k][1]
    /\ last # None =>
          /\ last[1].made_end # None => last[1].start_pending
          /\ last[1].emitted <=> last[1].made_end # None
          /\ last[1].emitted =>
                /\ start = None
                /\ pairs[Len(pairs)][2] = last[1].step

\* An effort has been emitted whose start was produced on an earlier step
\* than its end.
C7_StartPendingAcrossSteps ==
    \E k \in 1..Len(pairs) : pairs[k][1] < pairs[k][2]

\* Two efforts have been emitted in one run.
C7_TwoEfforts == Len(pairs) >= 2

(***************************************************************************)
(* C8.  check_passed_point.                                                *)
(***************************************************************************)
\* C8 as stated: check_passed_point(step, target) is true if and only if the
\* perpendicular distance from the target to the infinite line through the
\* step is strictly less than the smaller of the target's distances to the
\* two endpoints of the step.
C8_LineDistanceTest ==
    last # None =>
        /\ last[1].passed_start
              <=> LineCloserThanEndpoints(StepAt(last[1].step), segment.p1)
        /\ last[1].passed_end # None =>
              (last[1].passed_end[1]
                  <=> LineCloserThanEndpoints(StepAt(last[1].step), segment.p2))

\* C8 amended: check_passed_point(step, target) is true if and only if the
\* projection of the target onto the line through the step falls strictly
\* between the two endpoints of the step (the distance that the test
\* compares is the distance to the step as a closed segment, not to the
\* infinite line).
C8_ProjectionInsideTest ==
    last # None =>
        /\ last[1].passed_start
              <=> ProjectsStrictlyInside(StepAt(last[1].step), segment.p1)
        /\ last[1].passed_end # None =>
              (last[1].passed_end[1]
                  <=> ProjectsStrictlyInside(StepAt(last[1].step), segment.p2))

\* A step has been tested against the segment start and rejected although
\* the start is nearer to the line through the step than to both endpoints.
C8_RejectedBesideStep ==
    /\ last # None
    /\ ~last[1].passed_start
    /\ LineCloserThanEndpoints(StepAt(last[1].step), segment.p1)

(***************************************************************************)
(* C9.  The steps calc_segment_times examines.                             *)
(***************************************************************************)
\* C9: for a list of n >= 2 points the loop examines the steps at positions
\* 0..n-2, so that when it returns the last step examined is the one at
\* position n-2, whose ap2 is the final point of the list.
C9_ExaminesEveryPair ==
    (pc = "done" /\ Len(relevant_trackpoints) >= 2) =>
        /\ calc_point_idx = Len(relevant_trackpoints) - 1
        /\ last # None
        /\ last[1].step = Len(relevant_trackpoints) - 2

(***************************************************************************)
(* C10.  The list passed to calc_segment_times.                            *)
(***************************************************************************)
\* C10: the list that segment_time passes to calc_segment_times is in
\* increasing order of track index (no track point twice), hence in
\* non-decreasing order of time.
C10_ListInTrackOrder ==
    pc \in {"calc", "done"} =>
        /\ RunOf(relevant_idxs)
        /\ \A j, k \in 1..Len(relevant_trackpoints) :
              j < k => relevant_trackpoints[j].time <= relevant_trackpoints[k].time
====
